---- MODULE Spec2Model ----
(***************************************************************************)
(* Model of ElectricalPanelMonitor (src/electrical_panel_monitor.py): the  *)
(* capture loop (monitor_loop, start_recording, stop_recording), the       *)
(* recording channel (audio_queue), the clip writer (audio_writer_thread)  *)
(* and the shutdown path (start_monitoring's finally / clean_up).          *)
(*                                                                         *)
(* A block is identified by its sequence number 1, 2, ... in the order     *)
(* stream.read returned it; its filtered RMS is an input of the step.      *)
(* Time is the value time.time() returns, in whole units; it advances by   *)
(* an input amount between two blocks.                                     *)
(***************************************************************************)
EXTENDS Integers, Sequences, FiniteSets

\* ---------------------------------------------------------------- bounds
\* Number of blocks stream.read delivers in a run of the model.
MaxBlocks == 5
\* Largest configured pre_record_seconds the model draws.
MaxPreRecord == 1
\* Largest value of time.time() in a run of the model.
MaxTime == 6

\* ------------------------------------------------- configuration values
\* self.config.get('trigger_threshold', 50)
TRIGGER_THRESHOLD == 50
\* self.config.get('min_silence_seconds', 2.0)
MIN_SILENCE_TIME == 2
\* self.config.get('sample_rate', ...) and self.config.get('chunk_size', ...):
\* configured values, small here so that RATE / CHUNK is not an integer.
RATE == 5
CHUNK == 2

\* silence_start_time = None
NoTime == -1
\* The sentinel None put on audio_queue at the end of a recording.
None == 0

\* Filtered RMS values a block may have: below, at and above the threshold.
Readings == {TRIGGER_THRESHOLD - 1, TRIGGER_THRESHOLD, TRIGGER_THRESHOLD + 1}
\* Amounts time.time() may advance between two blocks: less than, equal to
\* and more than the minimum silence.
TimeSteps == 0..(MIN_SILENCE_TIME + 1)
PreRecordChoices == 0..MaxPreRecord

VARIABLES
    pre_record_seconds,        \* self.PRE_RECORD_BUFFER (configuration)
    min_silence_seconds,       \* self.MIN_SILENCE_TIME (configuration)
    recording,                 \* self.recording
    pre_buffer,                \* self.pre_buffer (deque with maxlen)
    audio_queue,               \* self.audio_queue (queue.Queue)
    detections,                \* self.detections
    silence_start_time,        \* local of monitor_loop
    writer_thread_stop_event,  \* self.writer_thread_stop_event
    recording_data,            \* local of audio_writer_thread
    saved,                     \* the clips _save_recording wrote, in order
    main_pc,                   \* "loop" | "join" | "done"
    writer_pc,                 \* "check" | "get" | "done"
    now,                       \* time.time()
    nread,                     \* blocks stream.read has returned
    \* observers (history of what the code did; never read by the code)
    enq,                       \* every item put on audio_queue, in order
    deq,                       \* every item the writer got, in order
    starts,                    \* calls of start_recording
    step                       \* what the last processed block did

vars == <<pre_record_seconds, min_silence_seconds, recording, pre_buffer, audio_queue, detections,
          silence_start_time, writer_thread_stop_event, recording_data, saved,
          main_pc, writer_pc, now, nread, enq, deq, starts, step>>

config_vars == <<pre_record_seconds, min_silence_seconds>>
monitor_vars == <<recording, pre_buffer, detections, silence_start_time,
                  nread, starts, step>>
writer_vars == <<recording_data, saved, deq>>

\* ---------------------------------------------------------------- helpers
Min(a, b) == IF a < b THEN a ELSE b

\* Variants of the operators below, each with one plausible slip of the code.
ShouldStartNoGuard(rec, rms) == rms > TRIGGER_THRESHOLD
ShouldStartNotDropped(rec, rms) == rec /\ rms > TRIGGER_THRESHOLD
IsSilentOrEqual(rms) == rms <= TRIGGER_THRESHOLD
SilenceExpiredInverted(t, start) == t - start < min_silence_seconds
TimerOnLoudKept(t) == t
QueueHeadLifo(q) == q[Len(q)]
DequeAppendNoEvict(buf, x, m) == Append(buf, x)
TimerOnStopKept(t) == t
DetectionsNotCounted(d) == d
AccumulatorKept(acc) == acc
StartRecordingPutsNothing(buf) == <<>>

\* int(self.PRE_RECORD_BUFFER * self.RATE / self.CHUNK): int() truncates.
PreBufferMaxlen(seconds) == (seconds * RATE) \div CHUNK

\* deque(maxlen=m).append(x): a full deque drops its oldest item; a deque of
\* maxlen 0 stays empty.
DequeAppend(buf, x, m) ==
    IF m = 0 THEN <<>>
    ELSE IF Len(buf) >= m THEN Append(Tail(buf), x)
    ELSE Append(buf, x)

\* queue.Queue.put / get: FIFO.
QueuePut(q, x) == Append(q, x)
QueueHead(q) == Head(q)
QueueRest(q) == Tail(q)

\* `not self.recording and rms > self.TRIGGER_THRESHOLD`
ShouldStart(rec, rms) == (~rec) /\ rms > TRIGGER_THRESHOLD

\* `rms < self.TRIGGER_THRESHOLD`
IsSilent(rms) == rms < TRIGGER_THRESHOLD

\* `time.time() - silence_start_time > self.MIN_SILENCE_TIME`
SilenceExpired(t, start) == t - start > min_silence_seconds

\* the else branch of `if rms < self.TRIGGER_THRESHOLD`: silence_start_time = None
TimerOnLoud(t) == NoTime

\* the stop branch: stop_recording(...) then silence_start_time = None
TimerOnStop(t) == NoTime

\* stop_recording: self.detections += 1
DetectionsAfterStop(d) == d + 1

\* audio_writer_thread: recording_data.append(data)
WriterAppend(acc, data) == Append(acc, data)

\* audio_writer_thread: recording_data = [] after _save_recording
AccumulatorAfterSave(acc) == <<>>

\* start_recording: every block of the pre-buffer is put on the queue.
StartRecordingPuts(buf) == buf

NoStep == [n |-> 0, t |-> 0, rms |-> 0, was_recording |-> FALSE, started |-> FALSE,
           stopped |-> FALSE, timer_before |-> NoTime, run_start |-> NoTime,
           put |-> <<>>]

\* The state __init__ and the entries of monitor_loop and audio_writer_thread
\* set, whatever the configuration.
InitState ==
    /\ recording = FALSE
    /\ pre_buffer = <<>>
    /\ audio_queue = <<>>
    /\ detections = 0
    /\ silence_start_time = NoTime
    /\ writer_thread_stop_event = FALSE
    /\ recording_data = <<>>
    /\ saved = <<>>
    /\ main_pc = "loop"
    /\ writer_pc = "check"
    /\ now = 0
    /\ nread = 0
    /\ enq = <<>>
    /\ deq = <<>>
    /\ starts = 0
    /\ step = NoStep

Init ==
    /\ pre_record_seconds \in PreRecordChoices
    /\ min_silence_seconds = MIN_SILENCE_TIME
    /\ InitState

\* ----------------------------------------------------------- capture loop
\* One iteration of monitor_loop's while loop on a block that was read.
BlockStep(rms, dt) ==
    LET data == nread + 1
        t == now + dt
        buf == DequeAppend(pre_buffer, data, PreBufferMaxlen(pre_record_seconds))
        trig == ShouldStart(recording, rms)
        rec1 == recording \/ trig
        puts1 == IF trig THEN StartRecordingPuts(buf) ELSE <<>>
        sil1 == IF trig THEN NoTime ELSE silence_start_time
        puts2 == IF rec1 THEN QueuePut(puts1, data) ELSE puts1
        silent == rec1 /\ IsSilent(rms)
        stop == silent /\ sil1 # NoTime /\ SilenceExpired(t, sil1)
        sil2 == IF ~rec1 THEN sil1
                ELSE IF IsSilent(rms)
                     THEN (IF sil1 = NoTime THEN t
                           ELSE IF stop THEN TimerOnStop(sil1) ELSE sil1)
                     ELSE TimerOnLoud(sil1)
        puts3 == IF stop THEN QueuePut(puts2, None) ELSE puts2
        run == IF silent
               THEN (IF step.run_start # NoTime /\ ~step.stopped
                     THEN step.run_start ELSE t)
               ELSE NoTime
    IN  /\ main_pc = "loop"
        /\ nread' = data
        /\ now' = t
        /\ pre_buffer' = buf
        /\ recording' = (rec1 /\ ~stop)
        /\ detections' = IF stop THEN DetectionsAfterStop(detections) ELSE detections
        /\ silence_start_time' = sil2
        /\ audio_queue' = audio_queue \o puts3
        /\ enq' = enq \o puts3
        /\ starts' = IF trig THEN starts + 1 ELSE starts
        /\ step' = [n |-> data, t |-> t, rms |-> rms, was_recording |-> recording,
                    started |-> trig, stopped |-> stop,
                    timer_before |-> silence_start_time, run_start |-> run,
                    put |-> puts3]
        /\ UNCHANGED <<config_vars, writer_thread_stop_event,
                       writer_vars, main_pc, writer_pc>>

\* The iteration, within the bounds of the model.
ProcessBlock(rms, dt) ==
    /\ nread < MaxBlocks
    /\ now + dt <= MaxTime
    /\ BlockStep(rms, dt)

\* A read whose IOError is not caught: the exception leaves monitor_loop and
\* start_monitoring's finally runs clean_up.
ReadOverflowPropagates(dt) ==
    /\ main_pc = "loop"
    /\ dt > 0
    /\ now + dt <= MaxTime
    /\ now' = now + dt
    /\ main_pc' = "join"
    /\ writer_thread_stop_event' = TRUE
    /\ UNCHANGED <<config_vars, monitor_vars, audio_queue, enq,
                   writer_vars, writer_pc>>

\* stream.read raised IOError: the warning is logged and the loop continues.
ReadOverflow(dt) ==
    /\ main_pc = "loop"
    /\ dt > 0
    /\ now + dt <= MaxTime
    /\ now' = now + dt
    /\ UNCHANGED <<config_vars, monitor_vars, audio_queue, enq,
                   writer_thread_stop_event, writer_vars, main_pc, writer_pc>>

\* KeyboardInterrupt in monitor_loop, then clean_up up to the join. The
\* interrupt is taken where the loop waits, in the blocking stream.read, that
\* is between two blocks.
CleanUp ==
    /\ main_pc = "loop"
    /\ main_pc' = "join"
    /\ writer_thread_stop_event' = TRUE
    /\ UNCHANGED <<config_vars, monitor_vars, audio_queue, enq, now,
                   writer_vars, writer_pc>>

\* self.writer_thread.join(timeout=5) returns: the writer ended, or 5 s passed.
\* The writer is a daemon thread: it does not outlive start_monitoring's return.
Join ==
    /\ main_pc = "join"
    /\ main_pc' = "done"
    /\ UNCHANGED <<config_vars, monitor_vars, audio_queue, enq, now,
                   writer_thread_stop_event, writer_vars, writer_pc>>

\* ------------------------------------------------------------ clip writer
\* `while not self.writer_thread_stop_event.is_set()`
WriterCheck ==
    /\ writer_pc = "check"
    /\ main_pc # "done"
    /\ writer_pc' = IF writer_thread_stop_event THEN "done" ELSE "get"
    /\ UNCHANGED <<config_vars, monitor_vars, audio_queue, enq, now,
                   writer_thread_stop_event, writer_vars, main_pc>>

\* self.audio_queue.get(timeout=1) returned an item; the rest of the loop body.
WriterGet ==
    /\ writer_pc = "get"
    /\ main_pc # "done"
    /\ audio_queue # <<>>
    /\ LET data == QueueHead(audio_queue)
       IN  /\ audio_queue' = QueueRest(audio_queue)
           /\ deq' = Append(deq, data)
           /\ IF data = None
              THEN /\ saved' = IF recording_data # <<>>
                               THEN Append(saved, recording_data) ELSE saved
                   /\ recording_data' = IF recording_data # <<>>
                                        THEN AccumulatorAfterSave(recording_data)
                                        ELSE recording_data
              ELSE /\ recording_data' = WriterAppend(recording_data, data)
                   /\ saved' = saved
    /\ writer_pc' = "check"
    /\ UNCHANGED <<config_vars, monitor_vars, enq, now,
                   writer_thread_stop_event, main_pc>>

\* A get without timeout: on an empty queue the writer waits for ever.
WriterWaitsForEver ==
    /\ writer_pc = "get"
    /\ FALSE
    /\ UNCHANGED vars

\* queue.Empty ends the loop (break instead of continue).
WriterTimeoutBreaks ==
    /\ writer_pc = "get"
    /\ main_pc # "done"
    /\ audio_queue = <<>>
    /\ writer_pc' = "done"
    /\ UNCHANGED <<config_vars, monitor_vars, audio_queue, enq, now,
                   writer_thread_stop_event, writer_vars, main_pc>>

\* self.audio_queue.get(timeout=1) raised queue.Empty: continue.
WriterTimeout ==
    /\ writer_pc = "get"
    /\ main_pc # "done"
    /\ audio_queue = <<>>
    /\ writer_pc' = "check"
    /\ UNCHANGED <<config_vars, monitor_vars, audio_queue, enq, now,
                   writer_thread_stop_event, writer_vars, main_pc>>

Next ==
    \/ \E rms \in Readings, dt \in TimeSteps : ProcessBlock(rms, dt)
    \/ \E dt \in TimeSteps : ReadOverflow(dt)
    \/ CleanUp
    \/ Join
    \/ WriterCheck
    \/ WriterGet
    \/ WriterTimeout

Spec == Init /\ [][Next]_vars

\* The writer thread is scheduled: a step of it that stays possible is taken
\* (get(timeout=1) returns within a second, with an item or with queue.Empty).
WriterFairness ==
    /\ WF_vars(WriterCheck)
    /\ WF_vars(WriterGet)
    /\ WF_vars(WriterTimeout)

FairSpec == Spec /\ WriterFairness

\* ------------------------------------------------- the scripted scenario
\* The capture loop fed 10 blocks of RMS 5, 20 of RMS 80 and 15 of RMS 5, one
\* block per unit of time, with threshold 50, min_silence_seconds 10 units
\* (ten blocks) and a pre-buffer of 10 or 12 blocks; the writer runs beside it.
ScenarioRms(i) == IF i <= 10 THEN 5 ELSE IF i <= 10 + 20 THEN 80 ELSE 5
ScenarioLength == 10 + 20 + 15

ScenarioInit ==
    /\ pre_record_seconds \in {4, 5}
    /\ min_silence_seconds = 10
    /\ InitState

ScenarioBlock ==
    /\ nread < ScenarioLength
    /\ BlockStep(ScenarioRms(nread + 1), 1)

ScenarioNext ==
    \/ ScenarioBlock
    \/ WriterCheck
    \/ WriterGet
    \/ WriterTimeout

ScenarioSpec == ScenarioInit /\ [][ScenarioNext]_vars

\* ------------------------------------------------------------- properties
\* End-of-clip markers in a sequence of queue items.
Markers(s) == Cardinality({i \in DOMAIN s : s[i] = None})
\* The capacity the pre-buffer was built with.
Capacity == PreBufferMaxlen(pre_record_seconds)
\* A block has been processed, and it was processed in state Recording
\* (the state after the trigger check of that block).
InRecording == step.n > 0 /\ (step.was_recording \/ step.started)

\* C1: recording starts and stops alternate, beginning with a start: a start
\* happens only in Listening, a marker is put only in Recording, at most one
\* per block, and the markers put so far are the starts so far less the
\* episode still open.
C1_Alternation ==
    /\ starts = Markers(enq) + (IF recording THEN 1 ELSE 0)
    /\ (step.started => ~step.was_recording)
    /\ (step.stopped => step.was_recording /\ ~step.started)
    /\ Markers(step.put) = (IF step.stopped THEN 1 ELSE 0)
C1_Witness == starts = 2 /\ Markers(enq) = 1 /\ recording

\* C2: on a trigger the blocks put on the queue are the last
\* min(N, blocks seen before) pre-trigger blocks, oldest first, then the
\* triggering block once.
C2_ExpectedSeed ==
    LET k == Min(Capacity, step.n - 1)
    IN  [i \in 1..k |-> step.n - 1 - k + i] \o <<step.n>>
C2_PreRollThenTriggerOnce == step.started => step.put = C2_ExpectedSeed

\* C3 as stated: in Listening a block with reading >= threshold starts a
\* recording on that block and leaves the silence timer unset.
C3_StartsAtOrAbove ==
    (step.n > 0 /\ ~step.was_recording /\ step.rms >= TRIGGER_THRESHOLD)
        => (step.started /\ recording /\ silence_start_time = NoTime)
\* C3 amended: in Listening a block with reading > threshold starts a
\* recording on that block and leaves the silence timer unset.
C3_StartsAbove ==
    (step.n > 0 /\ ~step.was_recording /\ step.rms > TRIGGER_THRESHOLD)
        => (step.started /\ recording /\ silence_start_time = NoTime
            /\ step.put # <<>>)
C3_Witness ==
    step.n > 1 /\ ~step.was_recording /\ step.rms > TRIGGER_THRESHOLD /\ recording

\* C4: while Recording, a silent block whose run of silent blocks began less
\* than min-silence ago keeps the state Recording and puts no marker.
C4_Hold ==
    (InRecording /\ step.run_start # NoTime
        /\ step.t - step.run_start < min_silence_seconds)
        => (recording /\ ~step.stopped /\ Markers(step.put) = 0)
C4_Witness ==
    /\ InRecording /\ step.run_start # NoTime /\ step.timer_before # NoTime
    /\ step.t - step.run_start = min_silence_seconds - 1
    /\ recording

\* C5: while Recording, a silent block processed when the silence timer has
\* run for min-silence or longer, exactly min-silence included, stops the clip:
\* marker put, state Listening.
C5_StopAtOrAfter ==
    (step.n > 0 /\ step.was_recording /\ step.rms < TRIGGER_THRESHOLD
        /\ step.timer_before # NoTime
        /\ step.t - step.timer_before >= min_silence_seconds)
        => (step.stopped /\ ~recording /\ Markers(step.put) = 1)

\* C6: while Recording a block with reading >= threshold unsets the silence
\* timer; the timer, when set, is the time of the first block of the current
\* unbroken silent run; and a stop happens only on a run at least min-silence
\* long.
C6_Reset ==
    /\ (InRecording /\ step.rms >= TRIGGER_THRESHOLD
            => silence_start_time = NoTime /\ ~step.stopped)
    /\ (recording => silence_start_time = step.run_start)
    /\ (step.stopped => /\ step.run_start # NoTime
                        /\ step.timer_before = step.run_start
                        /\ step.t - step.run_start >= min_silence_seconds)
C6_Witness ==
    /\ step.was_recording /\ step.rms >= TRIGGER_THRESHOLD
    /\ step.timer_before # NoTime
    /\ step.t - step.timer_before > min_silence_seconds

\* C7: a reading equal to the threshold does not start a recording in
\* Listening; while Recording it unsets the silence timer and is never the
\* block on which the clip stops.
C7_Boundary ==
    (step.n > 0 /\ step.rms = TRIGGER_THRESHOLD)
        => /\ ~step.started
           /\ recording = step.was_recording
           /\ ~step.stopped
           /\ silence_start_time = NoTime
           /\ (step.was_recording => step.put = <<step.n>>)
           /\ (~step.was_recording => step.put = <<>>)
C7_Witness ==
    /\ step.was_recording /\ step.rms = TRIGGER_THRESHOLD
    /\ step.timer_before # NoTime
    /\ step.t - step.timer_before > min_silence_seconds
    /\ recording

\* C8: the writer gets the items in the order they were put, none dropped and
\* none twice; so a marker is got only after every block put before it.
C8_Fifo ==
    /\ enq = deq \o audio_queue
    /\ \A i \in DOMAIN deq :
          deq[i] = None => \A j \in 1..(i - 1) : deq[j] = enq[j]
C8_Witness ==
    /\ Markers(deq) = 1 /\ Len(deq) >= 3 /\ audio_queue # <<>>
    /\ main_pc = "loop"

\* C9: a shutdown while Recording puts a synthetic end-of-clip marker: once
\* clean_up is over, the last item put on the queue, if any, is a marker.
C9_ShutdownFlushesMarker ==
    main_pc = "done" => (enq = <<>> \/ enq[Len(enq)] = None)

\* C10: the writer ends only with the queue drained and every clip whose
\* marker was put written.
C10_DrainBeforeExit ==
    writer_pc = "done" => (audio_queue = <<>> /\ Len(saved) = Markers(enq))


\* C12: a read that raises the overflow error (time passes, no block is read)
\* leaves the loop running and the trigger state, the silence timer, the
\* pre-buffer, the queue and the detection counter unchanged.
C12_OverflowRecoverable ==
    [][(nread' = nread /\ now' # now)
          => /\ main_pc' = "loop"
             /\ UNCHANGED <<recording, silence_start_time, pre_buffer,
                            audio_queue, detections>>]_vars
C12_Witness ==
    /\ main_pc = "loop" /\ step.n > 0 /\ now > step.t
    /\ recording /\ silence_start_time # NoTime /\ audio_queue # <<>>
    /\ nread < MaxBlocks

\* C13: the pre-buffer holds at most N blocks, and they are the
\* min(N, blocks read) most recently read blocks in the order read.
C13_PreBufferRecent ==
    /\ Len(pre_buffer) <= Capacity
    /\ LET k == Min(Capacity, nread)
       IN  pre_buffer = [i \in 1..k |-> nread - k + i] \o <<>>
C13_Witness ==
    Capacity > 0 /\ nread > Capacity + 1 /\ Len(pre_buffer) = Capacity /\ recording

\* C14: the pre-buffer capacity is ceil(pre-roll seconds x rate / block
\* length): once that many blocks have been read the buffer holds that many.
CeilDiv(a, b) == (a + b - 1) \div b
C14_CeilCapacity ==
    LET c == CeilDiv(pre_record_seconds * RATE, CHUNK)
    IN  nread >= c => Len(pre_buffer) = c

\* C16: the detection counter never decreases, changes only by +1 and only on
\* the block that stops a recording, and always equals the number of markers
\* put on the queue.
C16_DetectionCounter ==
    /\ [](detections = Markers(enq))
    /\ [][detections' # detections
            => /\ detections' = detections + 1
               /\ nread' = nread + 1 /\ step'.n = nread' /\ step'.stopped
               /\ Markers(enq') = Markers(enq) + 1]_vars
C16_Witness == detections = 1 /\ Markers(enq) = 1 /\ step.stopped /\ ~recording

\* Position in s of its k-th marker (0 for k = 0).
KthMarker(s, k) ==
    IF k = 0 THEN 0
    ELSE CHOOSE i \in DOMAIN s :
            s[i] = None /\ Markers(SubSeq(s, 1, i)) = k

\* C17: the k-th clip written is the blocks put on the queue between the
\* (k-1)-th and the k-th marker, in order; one clip is written per marker
\* got; the accumulator holds the blocks got since the last marker.
C17_ClipAssembly ==
    /\ Len(saved) = Markers(deq)
    /\ \A k \in 1..Len(saved) :
          saved[k] = SubSeq(enq, KthMarker(enq, k - 1) + 1, KthMarker(enq, k) - 1)
    /\ recording_data = SubSeq(deq, KthMarker(deq, Markers(deq)) + 1, Len(deq))
C17_Witness ==
    Len(saved) = 1 /\ Len(saved[1]) >= 3 /\ recording_data # <<>>

\* C18: no block is put on the queue as part of two different clips.
C18_NoBlockInTwoClips ==
    \A i, j \in DOMAIN enq :
        (enq[i] # None /\ enq[i] = enq[j])
            => Markers(SubSeq(enq, 1, i)) = Markers(SubSeq(enq, 1, j))

\* C20: in Listening the silence timer is unset; the timer is set only after
\* a silent block processed while Recording; the block that starts and the
\* block that stops a recording leave it unset.
C20_ListeningTimerUnset ==
    /\ (~recording => silence_start_time = NoTime)
    /\ (silence_start_time # NoTime => InRecording /\ step.rms < TRIGGER_THRESHOLD)
    /\ (step.started \/ step.stopped => silence_start_time = NoTime)
C20_Witness ==
    step.stopped /\ ~recording /\ step.timer_before # NoTime /\ now > step.t

\* The blocks first..last, in order.
Blocks(first, last) == [i \in 1..(last - first + 1) |-> first + i - 1] \o <<>>

C15_ExpectedClip ==
    Blocks(11 - Min(Capacity, 11) + 1, 11) \o Blocks(11, 30) \o Blocks(31, 42)
C11_WriterTerminates ==
    writer_thread_stop_event ~> (writer_pc = "done" \/ main_pc = "done")
C11_Witness ==
    /\ writer_pc = "done" /\ main_pc = "join"
    /\ audio_queue = <<>> /\ Markers(enq) = 0 /\ nread > 0

\* C19: while the stop signal is not set, every clip whose marker was put is
\* written: from k markers put, k clips get saved or the stop signal is set
\* (a recording takes three blocks at least, which bounds k).
C19_EventuallySaved ==
    \A k \in 1..(MaxBlocks \div 3) :
        (Markers(enq) >= k) ~> (Len(saved) >= k \/ writer_thread_stop_event)
C19_Witness ==
    /\ ~writer_thread_stop_event /\ Markers(enq) = 1 /\ Len(saved) = 1
    /\ detections = Len(saved) /\ nread = MaxBlocks

====
